---------------------------- MODULE Spec2Model ----------------------------
(***************************************************************************)
(* Model of imap/lib/opendrive/plan_view.py: the geometry segment classes  *)
(* (Geometry, Spiral, Arc, Poly3, ParamPoly3), their parse_from and        *)
(* sampling methods, and PlanView.parse_from / add_geometry.               *)
(*                                                                         *)
(* Python objects are records whose fields are the attributes the object   *)
(* has (an attribute that was never assigned is not in DOMAIN); they live  *)
(* in a heap indexed by object identity, so that two list entries naming   *)
(* the same object are distinguishable from two equal objects.             *)
(* Floating-point values are modelled by integers and exact rationals.     *)
(***************************************************************************)
EXTENDS Integers, Sequences, FiniteSets, TLC

VARIABLES
  raw_plan_view,  \* the <geometry> elements given to PlanView.parse_from
  idx,            \* position of parse_from's for loop (1-based)
  geometry,       \* parse_from's local variable: an object identity
  heap,           \* the segment objects, by identity
  geometrys,      \* PlanView.geometrys: a list of object identities
  printed,        \* number of "geometry type not support" lines printed
  pc,             \* parsing, failed, built, sampling, sampled, raised
  exc,            \* the exception that ended the build or the pass
  delta_s,        \* the sampling length of the current pass
  k,              \* position of the pass in geometrys
  stream,         \* the points of the pass so far
  last            \* the latest sampling call and its result

vars == <<raw_plan_view, idx, geometry, heap, geometrys, printed, pc, exc,
          delta_s, k, stream, last>>

(***************************************************************************)
(* Bounds of the explored inputs.                                          *)
(***************************************************************************)
MaxBlocks == 3
MaxLen == 2
MaxDelta == 2
MaxCurv == 1
MaxCoef == 1

(***************************************************************************)
(* Python values.                                                          *)
(***************************************************************************)
None == "None"
Unbound == 0

SetAttr(self, name, value) == (name :> value) @@ self
HasAttr(self, name) == name \in DOMAIN self

Min(a, b) == IF a <= b THEN a ELSE b
Abs(a) == IF a < 0 THEN -a ELSE a

\* math.ceil(n / d) for d > 0
Ceil(n, d) == -((-n) \div d)

RECURSIVE Gcd(_, _)
Gcd(a, b) == IF b = 0 THEN a ELSE Gcd(b, a % b)

\* the float n / d (d # 0), kept exact as a reduced fraction
Rat(n, d) ==
  LET g == Gcd(Abs(n), Abs(d))
      sg == IF d < 0 THEN -1 ELSE 1
  IN  [num |-> sg * (n \div g), den |-> sg * (d \div g)]

RatAdd(p, q) == Rat(p.num * q.den + q.num * p.den, p.den * q.den)

(***************************************************************************)
(* The parsed XML input: a <geometry> element has the attributes s, x, y,  *)
(* hdg, length and one child element carrying the subtype tag.             *)
(***************************************************************************)
RecognizedTags == {"line", "spiral", "arc", "poly3", "paramPoly3"}
Tags == RecognizedTags \cup {"bezier"}

Curv == -MaxCurv .. MaxCurv
Coef == 0 .. MaxCoef
Delta == 1 .. MaxDelta

NoAttrib == <<>>

Children(tag) ==
  CASE tag = "spiral" ->
         {[tag |-> tag, attrib |-> [curvStart |-> cs, curvEnd |-> ce]] :
            cs \in Curv, ce \in Curv}
    [] tag = "arc" ->
         {[tag |-> tag, attrib |-> [curvature |-> c]] : c \in Curv}
    [] tag = "poly3" ->
         {[tag |-> tag, attrib |-> [a |-> a, b |-> b, c |-> c, d |-> d]] :
            a \in Coef, b \in Coef, c \in Coef, d \in Coef}
    [] tag = "paramPoly3" ->
         {[tag |-> tag,
           attrib |-> [aU |-> u, bU |-> u, cU |-> u, dU |-> u,
                       aV |-> v, bV |-> v, cV |-> v, dV |-> v, pRange |-> p]] :
            u \in Coef, v \in Coef, p \in {"arcLength", "normalized"}}
    [] OTHER -> {[tag |-> tag, attrib |-> NoAttrib]}

\* one representative child element per tag, used in the multi-block inputs
PlainChild(tag) ==
  CASE tag = "spiral" ->
         [tag |-> tag, attrib |-> [curvStart |-> 0, curvEnd |-> MaxCurv]]
    [] tag = "arc" -> [tag |-> tag, attrib |-> [curvature |-> MaxCurv]]
    [] tag = "poly3" ->
         [tag |-> tag, attrib |-> [a |-> 0, b |-> 0, c |-> 0, d |-> 0]]
    [] tag = "paramPoly3" ->
         [tag |-> tag,
          attrib |-> [aU |-> 0, bU |-> 1, cU |-> 0, dU |-> 0,
                      aV |-> 0, bV |-> 0, cV |-> 1, dV |-> 0,
                      pRange |-> "arcLength"]]
    [] OTHER -> [tag |-> tag, attrib |-> NoAttrib]

RawGeometry(s, x, y, hdg, length, child) ==
  [attrib |-> [s |-> s, x |-> x, y |-> y, hdg |-> hdg, length |-> length],
   children |-> <<child>>]

\* plan views of one geometry block, over the whole numeric range
SingleInputs ==
  {<<RawGeometry(s, o[1], o[2], hdg, length, child)>> :
     s \in {0, MaxLen}, o \in {<<0, 0>>, <<1, 2>>}, hdg \in {0, 1},
     length \in -MaxLen .. MaxLen,
     child \in UNION {Children(t) : t \in Tags}}

RECURSIVE SumTo(_, _)
SumTo(n, length) == IF n = 0 THEN 0 ELSE length + SumTo(n - 1, length)

\* plan views of several blocks of one length each; authored = the blocks
\* are contiguous in s (s[i] + length[i] = s[i+1]), otherwise all start at 0
ListInputsOf(n) ==
  {[i \in 1 .. n |->
      RawGeometry(IF authored THEN SumTo(i - 1, length) ELSE 0,
                  i, 0, 0, length, PlainChild(tags[i]))] :
     tags \in [1 .. n -> Tags], length \in {1, MaxLen}, authored \in BOOLEAN}

ListInputs == UNION {ListInputsOf(n) : n \in 0 .. MaxBlocks}

(***************************************************************************)
(* xml.etree: raw_geometry[0], raw_geometry.find(tag), attrib.get(name).   *)
(***************************************************************************)
\* what find() returns when no child has the tag (Python's None)
NoElement == [tag |-> None, attrib |-> NoAttrib]

FirstChild(raw_geometry) == raw_geometry.children[1]

Find(raw_geometry, tag) ==
  IF \E i \in 1 .. Len(raw_geometry.children) :
       raw_geometry.children[i].tag = tag
  THEN raw_geometry.children[
         CHOOSE i \in 1 .. Len(raw_geometry.children) :
           /\ raw_geometry.children[i].tag = tag
           /\ \A j \in 1 .. i - 1 : raw_geometry.children[j].tag # tag]
  ELSE NoElement

(***************************************************************************)
(* Constructors (all arguments default to None).                           *)
(***************************************************************************)
Geometry_init(cls) ==
  [cls |-> cls, s |-> None, x |-> None, y |-> None, hdg |-> None,
   length |-> None]

Spiral_init ==
  SetAttr(SetAttr(Geometry_init("Spiral"), "curv_start", None),
          "curv_end", None)

Arc_init == SetAttr(Geometry_init("Arc"), "curvature", None)

Poly3_init ==
  [cls |-> "Poly3", s |-> None, x |-> None, y |-> None, hdg |-> None,
   length |-> None, a |-> None, b |-> None, c |-> None, d |-> None,
   start_position |-> <<None>>]

ParamPoly3_init ==
  [cls |-> "ParamPoly3", s |-> None, x |-> None, y |-> None, hdg |-> None,
   length |-> None, aU |-> None, bU |-> None, cU |-> None, dU |-> None,
   aV |-> None, bV |-> None, cV |-> None, dV |-> None, pRange |-> None]

(***************************************************************************)
(* parse_from of each class.  The result is the object after the call and  *)
(* the exception the call ended with ("" when it returned).                *)
(***************************************************************************)
Returned(self) == [self |-> self, exc |-> ""]
Raised(self, e) == [self |-> self, exc |-> e]

Geometry_parse_from(self, raw_geometry) ==
  [self EXCEPT !.s = raw_geometry.attrib.s,
               !.x = raw_geometry.attrib.x,
               !.y = raw_geometry.attrib.y,
               !.hdg = raw_geometry.attrib.hdg,
               !.length = raw_geometry.attrib.length]

Spiral_parse_from(self, raw_geometry) ==
  LET base == Geometry_parse_from(self, raw_geometry)
      raw_spiral == Find(raw_geometry, "spiral")
  IN  IF raw_spiral = NoElement THEN Raised(base, "AttributeError")
      ELSE Returned([base EXCEPT !.curv_start = raw_spiral.attrib.curvStart,
                                 !.curv_end = raw_spiral.attrib.curvEnd])

Arc_parse_from(self, raw_geometry) ==
  LET base == Geometry_parse_from(self, raw_geometry)
      raw_arc == Find(raw_geometry, "arc")
  IN  IF raw_arc = NoElement THEN Raised(base, "AttributeError")
      ELSE Returned([base EXCEPT !.curvature = raw_arc.attrib.curvature])

Poly3_parse_from(self, raw_geometry) ==
  LET base == Geometry_parse_from(self, raw_geometry)
      raw_poly3 == Find(raw_geometry, "poly3")
  IN  IF raw_poly3 = NoElement THEN Raised(base, "AttributeError")
      ELSE Returned([base EXCEPT
             !.a = raw_poly3.attrib.a,
             !.b = raw_poly3.attrib.b,
             !.c = raw_poly3.attrib.c,
             !.d = raw_poly3.attrib.d,
             !.start_position =
                <<raw_geometry.attrib.x, raw_geometry.attrib.y>>])

ParamPoly3_parse_from(self, raw_geometry) ==
  LET base == Geometry_parse_from(self, raw_geometry)
      raw_param_poly3 == Find(raw_geometry, "paramPoly3")
  IN  IF raw_param_poly3 = NoElement THEN Raised(base, "AttributeError")
      ELSE Returned([base EXCEPT
             !.aU = raw_param_poly3.attrib.aU,
             !.bU = raw_param_poly3.attrib.bU,
             !.cU = raw_param_poly3.attrib.cU,
             !.dU = raw_param_poly3.attrib.dU,
             !.aV = raw_param_poly3.attrib.aV,
             !.bV = raw_param_poly3.attrib.bV,
             !.cV = raw_param_poly3.attrib.cV,
             !.dV = raw_param_poly3.attrib.dV,
             !.pRange = raw_param_poly3.attrib.pRange])

\* geometry.parse_from(raw_geometry): dispatch on the class of the object
parse_from(self, raw_geometry) ==
  CASE self.cls = "Geometry" -> Returned(Geometry_parse_from(self, raw_geometry))
    [] self.cls = "Spiral" -> Spiral_parse_from(self, raw_geometry)
    [] self.cls = "Arc" -> Arc_parse_from(self, raw_geometry)
    [] self.cls = "Poly3" -> Poly3_parse_from(self, raw_geometry)
    [] self.cls = "ParamPoly3" -> ParamPoly3_parse_from(self, raw_geometry)

\* the constructor PlanView.parse_from calls for a recognized tag
NewGeometry(tag) ==
  CASE tag = "line" -> Geometry_init("Geometry")
    [] tag = "spiral" -> Spiral_init
    [] tag = "arc" -> Arc_init
    [] tag = "poly3" -> Poly3_init
    [] tag = "paramPoly3" -> ParamPoly3_init

\* add_geometry inserting at the head of the list
add_geometry_front(list, g) == <<g>> \o list

\* PlanView.add_geometry
add_geometry(list, g) == Append(list, g)

(***************************************************************************)
(* Collaborators of the sampling methods that live outside this file:      *)
(* Transform (imap.lib.transform), Point3d (imap.lib.common) and the       *)
(* solvers odr_arc / odr_spiral (imap.lib.odr_spiral).  A world position   *)
(* is kept as the frame of the Transform and the local coordinates given   *)
(* to it; the local coordinates a solver returns are kept as the           *)
(* arguments of the solver call, which determine them.                     *)
(***************************************************************************)
Transform(x, y, z, yaw, roll, pitch) == <<x, y, yaw>>

\* exact local coordinates (s, t)
LocalExact(s, t) == [solver |-> "exact", s |-> s, t |-> t, p |-> Rat(0, 1)]

\* local coordinates returned by a solver called with (s, p); both solvers
\* return the local origin for s = 0
LocalSolved(solver, s, p) ==
  IF s = 0 THEN LocalExact(0, 0)
  ELSE [solver |-> solver, s |-> s, t |-> 0, p |-> p]

\* odr_arc(s, curvature): theta = curvature * s
odr_arc(s, curvature) ==
  [local |-> LocalSolved("odr_arc", s, Rat(curvature, 1)),
   theta |-> Rat(curvature * s, 1)]

\* odr_spiral(s, cdot): a clothoid starting with curvature 0,
\* theta = cdot * s^2 / 2
odr_spiral(s, cdot) ==
  [local |-> LocalSolved("odr_spiral", s, cdot),
   theta |-> Rat(cdot.num * s * s, 2 * cdot.den)]

\* Point3d(x, y, z, s) with (x, y, z) = tf.transform(local), then set_rotate
Point3d(tf, local, s, rotate) ==
  [frame |-> tf, local |-> local, z |-> 0, s |-> s, rotate |-> rotate]

(***************************************************************************)
(* sampling of each class.  The result is the object after the call, the   *)
(* exception the call ended with ("" when it returned), whether it         *)
(* returned None, and the list of points it returned.                      *)
(***************************************************************************)
ReturnedPoints(self, points) ==
  [self |-> self, exc |-> "", isNone |-> FALSE, points |-> points]
ReturnedNone(self) ==
  [self |-> self, exc |-> "", isNone |-> TRUE, points |-> <<>>]
RaisedIn(self, e) ==
  [self |-> self, exc |-> e, isNone |-> FALSE, points |-> <<>>]

\* range(n) as the indices 1 .. n (empty when n <= 0)
Range(n) == 1 .. (IF n < 0 THEN 0 ELSE n)

\* Geometry.sampling accumulating the arc-length into the segment itself
Geometry_sampling_writes_self(self, ds) ==
  LET sample_count == Ceil(self.length, ds) + 1
      tf == Transform(self.x, self.y, 0, self.hdg, 0, 0)
  IN  ReturnedPoints([self EXCEPT !.s = self.s + self.length],
        [i \in Range(sample_count) |->
           LET s == Min((i - 1) * ds, self.length)
               absolute_s == self.s + s
           IN  Point3d(tf, LocalExact(s, 0), absolute_s, Rat(self.hdg, 1))])

\* Geometry.sampling without the clamp of the last sample to length
Geometry_sampling_no_clamp(self, ds) ==
  LET sample_count == Ceil(self.length, ds) + 1
      tf == Transform(self.x, self.y, 0, self.hdg, 0, 0)
  IN  ReturnedPoints(self,
        [i \in Range(sample_count) |->
           LET s == (i - 1) * ds
               absolute_s == self.s + s
           IN  Point3d(tf, LocalExact(s, 0), absolute_s, Rat(self.hdg, 1))])

Geometry_sampling(self, ds) ==
  LET sample_count == Ceil(self.length, ds) + 1
      tf == Transform(self.x, self.y, 0, self.hdg, 0, 0)
  IN  ReturnedPoints(self,
        [i \in Range(sample_count) |->
           LET s == Min((i - 1) * ds, self.length)
               absolute_s == self.s + s
           IN  Point3d(tf, LocalExact(s, 0), absolute_s, Rat(self.hdg, 1))])

Spiral_sampling(self, ds) ==
  LET sample_count == Ceil(self.length, ds) + 1
      tf == Transform(self.x, self.y, 0, self.hdg, 0, 0)
  IN  IF self.length = 0 THEN RaisedIn(self, "ZeroDivisionError")
      ELSE
        LET cdot == Rat(self.curv_end - self.curv_start, self.length)
        IN  ReturnedPoints(self,
              [i \in Range(sample_count) |->
                 LET local_s == Min((i - 1) * ds, self.length)
                     sol == odr_spiral(local_s, cdot)
                     absolute_s == self.s + local_s
                 IN  Point3d(tf, sol.local, absolute_s,
                             RatAdd(Rat(self.hdg, 1), sol.theta))])

\* Arc.sampling with the sample count rounded down instead of up
Arc_sampling_floor_count(self, ds) ==
  LET sample_count == (self.length \div ds) + 1
      tf == Transform(self.x, self.y, 0, self.hdg, 0, 0)
  IN  ReturnedPoints(self,
        [i \in Range(sample_count) |->
           LET local_s == Min((i - 1) * ds, self.length)
               sol == odr_arc(local_s, self.curvature)
               absolute_s == self.s + local_s
           IN  Point3d(tf, sol.local, absolute_s,
                       RatAdd(Rat(self.hdg, 1), sol.theta))])

Arc_sampling(self, ds) ==
  LET sample_count == Ceil(self.length, ds) + 1
      tf == Transform(self.x, self.y, 0, self.hdg, 0, 0)
  IN  ReturnedPoints(self,
        [i \in Range(sample_count) |->
           LET local_s == Min((i - 1) * ds, self.length)
               sol == odr_arc(local_s, self.curvature)
               absolute_s == self.s + local_s
           IN  Point3d(tf, sol.local, absolute_s,
                       RatAdd(Rat(self.hdg, 1), sol.theta))])

\* np.arange(p0, p1, step) for step > 0
Arange(p0, p1, step) ==
  [i \in Range(Ceil(p1 - p0, step)) |-> p0 + (i - 1) * step]

\* Poly3.calc_interpolates: reads self.interval, which no code assigns
Poly3_calc_interpolates(self, pos_offset0, pos_offset1) ==
  LET p0 == pos_offset0
      p1 == pos_offset1
  IN  IF p1 > p0
      THEN IF HasAttr(self, "interval")
           THEN [exc |-> "", vals |-> Append(Arange(p0, p1, self.interval), p1)]
           ELSE [exc |-> "AttributeError", vals |-> <<>>]
      ELSE [exc |-> "", vals |-> <<>>]

\* Poly3.calc_position: the position and the heading at s_pos
Poly3_calc_position(self, s_pos) ==
  LET t == self.a + self.b * s_pos + self.c * s_pos * s_pos
             + self.d * s_pos * s_pos * s_pos
      tangent == self.b + 2 * self.c * s_pos + 3 * self.d * s_pos * s_pos
  IN  [pos |-> [frame |-> <<self.start_position[1], self.start_position[2],
                            self.hdg>>,
                local |-> LocalExact(s_pos, t)],
       tangent |-> self.hdg + tangent]

Poly3_sampling(self, ds) ==
  LET it == Poly3_calc_interpolates(self, 0, self.length)
  IN  IF it.exc # "" THEN RaisedIn(self, it.exc)
      ELSE ReturnedPoints(self,
             [i \in 1 .. Len(it.vals) |->
                LET s_pos == it.vals[i]
                    cp == Poly3_calc_position(self, s_pos)
                    absolute_s == self.s + s_pos
                IN  Point3d(cp.pos.frame, cp.pos.local, absolute_s,
                            Rat(cp.tangent, 1))])

\* ParamPoly3.sampling falling back to the straight-line sampling
ParamPoly3_sampling_as_line(self, ds) == Geometry_sampling(self, ds)

ParamPoly3_sampling(self, ds) ==
  LET sample_count == Ceil(self.length, ds) + 1
  IN  ReturnedNone(self)

\* geometry.sampling(delta_s): dispatch on the class of the object
sampling(self, ds) ==
  CASE self.cls = "Geometry" -> Geometry_sampling(self, ds)
    [] self.cls = "Spiral" -> Spiral_sampling(self, ds)
    [] self.cls = "Arc" -> Arc_sampling(self, ds)
    [] self.cls = "Poly3" -> Poly3_sampling(self, ds)
    [] self.cls = "ParamPoly3" -> ParamPoly3_sampling(self, ds)

(***************************************************************************)
(* The state machine: PlanView.parse_from, one loop iteration per step,    *)
(* then a caller sampling the segments of the built plan view in order.    *)
(***************************************************************************)
NoCall ==
  [obj |-> 0, delta_s |-> 0, exc |-> "", isNone |-> FALSE, points |-> <<>>]

Init ==
  /\ raw_plan_view \in SingleInputs \cup ListInputs
  /\ idx = 1
  /\ geometry = Unbound
  /\ heap = <<>>
  /\ geometrys = <<>>
  /\ printed = 0
  /\ pc = "parsing"
  /\ exc = ""
  /\ delta_s = 0
  /\ k = 0
  /\ stream = <<>>
  /\ last = NoCall

\* lines 243-244 with `geometry` naming object g of heap h
ParseAndAdd(h, g) ==
  LET r == parse_from(h[g], raw_plan_view[idx])
  IN  /\ heap' = [h EXCEPT ![g] = r.self]
      /\ geometry' = g
      /\ IF r.exc = ""
         THEN /\ geometrys' = add_geometry(geometrys, g)
              /\ idx' = idx + 1
              /\ UNCHANGED <<pc, exc>>
         ELSE /\ pc' = "failed"
              /\ exc' = r.exc
              /\ UNCHANGED <<geometrys, idx>>

\* a loop iteration whose block has one of the five recognized tags
ParseRecognized ==
  /\ pc = "parsing"
  /\ idx <= Len(raw_plan_view)
  /\ FirstChild(raw_plan_view[idx]).tag \in RecognizedTags
  /\ ParseAndAdd(Append(heap, NewGeometry(FirstChild(raw_plan_view[idx]).tag)),
                 Len(heap) + 1)
  /\ UNCHANGED <<raw_plan_view, printed, delta_s, k, stream, last>>

\* the else branch printing and skipping the block
ParseUnsupported_skip ==
  /\ pc = "parsing"
  /\ idx <= Len(raw_plan_view)
  /\ FirstChild(raw_plan_view[idx]).tag \notin RecognizedTags
  /\ printed' = printed + 1
  /\ idx' = idx + 1
  /\ UNCHANGED <<raw_plan_view, heap, geometry, geometrys, pc, exc,
                 delta_s, k, stream, last>>

\* a loop iteration taking the else branch: `geometry` keeps the binding of
\* the iteration before, or has none
ParseUnsupported ==
  /\ pc = "parsing"
  /\ idx <= Len(raw_plan_view)
  /\ FirstChild(raw_plan_view[idx]).tag \notin RecognizedTags
  /\ printed' = printed + 1
  /\ IF geometry = Unbound
     THEN /\ pc' = "failed"
          /\ exc' = "UnboundLocalError"
          /\ UNCHANGED <<heap, geometry, geometrys, idx>>
     ELSE ParseAndAdd(heap, geometry)
  /\ UNCHANGED <<raw_plan_view, delta_s, k, stream, last>>

\* the loop is exhausted: parse_from returns
ParseDone ==
  /\ pc = "parsing"
  /\ idx > Len(raw_plan_view)
  /\ pc' = "built"
  /\ UNCHANGED <<raw_plan_view, idx, geometry, heap, geometrys, printed, exc,
                 delta_s, k, stream, last>>

\* the caller starts a pass over plan_view.geometrys with a sampling length
StartSampling(ds) ==
  /\ pc = "built"
  /\ pc' = "sampling"
  /\ delta_s' = ds
  /\ k' = 1
  /\ stream' = <<>>
  /\ UNCHANGED <<raw_plan_view, idx, geometry, heap, geometrys, printed, exc,
                 last>>

\* the caller samples the next segment and extends its point list
SampleGeometry ==
  /\ pc = "sampling"
  /\ k <= Len(geometrys)
  /\ LET g == geometrys[k]
         r == sampling(heap[g], delta_s)
     IN  /\ heap' = [heap EXCEPT ![g] = r.self]
         /\ last' = [obj |-> g, delta_s |-> delta_s, exc |-> r.exc,
                     isNone |-> r.isNone, points |-> r.points]
         /\ IF r.exc = ""
            THEN /\ stream' = stream \o r.points
                 /\ k' = k + 1
                 /\ UNCHANGED <<pc, exc>>
            ELSE /\ pc' = "raised"
                 /\ exc' = r.exc
                 /\ UNCHANGED <<stream, k>>
  /\ UNCHANGED <<raw_plan_view, idx, geometry, geometrys, printed, delta_s>>

\* the pass is over all segments
FinishSampling ==
  /\ pc = "sampling"
  /\ k > Len(geometrys)
  /\ pc' = "sampled"
  /\ UNCHANGED <<raw_plan_view, idx, geometry, heap, geometrys, printed, exc,
                 delta_s, k, stream, last>>

\* the caller drops the result; the plan view can be sampled again
ResetSampling ==
  /\ pc \in {"sampled", "raised"}
  /\ pc' = "built"
  /\ exc' = ""
  /\ delta_s' = 0
  /\ k' = 0
  /\ stream' = <<>>
  /\ last' = NoCall
  /\ UNCHANGED <<raw_plan_view, idx, geometry, heap, geometrys, printed>>

Next ==
  \/ ParseRecognized
  \/ ParseUnsupported
  \/ ParseDone
  \/ \E ds \in Delta : StartSampling(ds)
  \/ SampleGeometry
  \/ FinishSampling
  \/ ResetSampling

Spec == Init /\ [][Next]_vars

(***************************************************************************)
(* Vocabulary of the properties.                                           *)
(***************************************************************************)
TagOf(i) == FirstChild(raw_plan_view[i]).tag
Blocks == 1 .. Len(raw_plan_view)
AllRecognized == \A i \in Blocks : TagOf(i) \in RecognizedTags
SomeUnsupported == \E i \in Blocks : TagOf(i) \notin RecognizedTags

ClassOf(tag) ==
  CASE tag = "line" -> "Geometry"
    [] tag = "spiral" -> "Spiral"
    [] tag = "arc" -> "Arc"
    [] tag = "poly3" -> "Poly3"
    [] tag = "paramPoly3" -> "ParamPoly3"

\* obj has the five shared fields of block raw
BaseFrom(obj, raw) ==
  /\ obj.s = raw.attrib.s
  /\ obj.x = raw.attrib.x
  /\ obj.y = raw.attrib.y
  /\ obj.hdg = raw.attrib.hdg
  /\ obj.length = raw.attrib.length

\* obj has the variant and the variant payload of block raw
VariantFrom(obj, raw) ==
  LET child == FirstChild(raw)
  IN  /\ obj.cls = ClassOf(child.tag)
      /\ child.tag = "spiral" =>
            /\ obj.curv_start = child.attrib.curvStart
            /\ obj.curv_end = child.attrib.curvEnd
      /\ child.tag = "arc" => obj.curvature = child.attrib.curvature
      /\ child.tag = "poly3" =>
            /\ <<obj.a, obj.b, obj.c, obj.d>> =
                 <<child.attrib.a, child.attrib.b, child.attrib.c,
                   child.attrib.d>>
            /\ obj.start_position = <<raw.attrib.x, raw.attrib.y>>
      /\ child.tag = "paramPoly3" =>
            /\ <<obj.aU, obj.bU, obj.cU, obj.dU>> =
                 <<child.attrib.aU, child.attrib.bU, child.attrib.cU,
                   child.attrib.dU>>
            /\ <<obj.aV, obj.bV, obj.cV, obj.dV>> =
                 <<child.attrib.aV, child.attrib.bV, child.attrib.cV,
                   child.attrib.dV>>
            /\ obj.pRange = child.attrib.pRange

Distinct(list) ==
  \A i, j \in 1 .. Len(list) : i # j => list[i] # list[j]

\* a sampling call has been made; Called is the segment it was made on
HasCall == last.obj # 0
Called == heap[last.obj]

(***************************************************************************)
(* C1: a Line, Arc or Spiral segment with length > 0 sampled at            *)
(* delta_s > 0 returns exactly ceil(length/delta_s) + 1 points, and point  *)
(* i (from 0) is stamped s = s_offset + min(i*delta_s, length).            *)
(***************************************************************************)
C1_SampleCountAndStamps ==
  (HasCall /\ Called.cls \in {"Geometry", "Spiral", "Arc"}
           /\ Called.length > 0) =>
    LET n == Ceil(Called.length, last.delta_s)
    IN  /\ last.exc = ""
        /\ ~last.isNone
        /\ Len(last.points) = n + 1
        /\ \A i \in 0 .. n :
             last.points[i + 1].s =
               Called.s + Min(i * last.delta_s, Called.length)
        /\ last.points[1].s = Called.s
        /\ last.points[n + 1].s = Called.s + Called.length

\* an Arc whose length is no multiple of delta_s has been sampled
C1_Witness ==
  /\ HasCall
  /\ Called.cls = "Arc"
  /\ Called.length > 0
  /\ Called.length % last.delta_s # 0
  /\ Len(last.points) >= 2

(***************************************************************************)
(* C2: a block with an unsupported tag makes the build end in an error;    *)
(* the build never completes as if the block were valid or absent.         *)
(***************************************************************************)
C2_UnsupportedTagIsError ==
  SomeUnsupported => pc \in {"parsing", "failed"}

(***************************************************************************)
(* C3: when every block has a recognized tag, the build cannot fail, it    *)
(* appends one new segment per block in input order, and segment k has     *)
(* the variant and the fields of block k.                                  *)
(***************************************************************************)
C3_OneSegmentPerBlock ==
  AllRecognized =>
    /\ pc # "failed"
    /\ Len(geometrys) = idx - 1
    /\ pc # "parsing" => Len(geometrys) = Len(raw_plan_view)
    /\ Distinct(geometrys)
    /\ \A j \in 1 .. Len(geometrys) :
         /\ geometrys[j] \in 1 .. Len(heap)
         /\ BaseFrom(heap[geometrys[j]], raw_plan_view[j])
         /\ VariantFrom(heap[geometrys[j]], raw_plan_view[j])

\* a plan view of MaxBlocks recognized blocks of several variants is built
C3_Witness ==
  /\ pc = "built"
  /\ AllRecognized
  /\ Len(geometrys) = MaxBlocks
  /\ TagOf(1) = "poly3"
  /\ TagOf(2) = "paramPoly3"
  /\ TagOf(MaxBlocks) = "spiral"

(***************************************************************************)
(* C4: when the segments are contiguous (s_offset[i] + length[i] =         *)
(* s_offset[i+1]) with length > 0, the concatenation of their sampled      *)
(* points in geometrys order is non-decreasing in s.                       *)
(***************************************************************************)
Authored ==
  \A i \in 1 .. Len(geometrys) :
    /\ heap[geometrys[i]].length > 0
    /\ i < Len(geometrys) =>
         heap[geometrys[i]].s + heap[geometrys[i]].length =
           heap[geometrys[i + 1]].s

\* C4: with contiguous segments of positive length the stream of a pass is
\* non-decreasing in s
C4_StreamMonotone ==
  (pc \in {"sampling", "sampled", "raised"} /\ Authored) =>
    \A i \in 1 .. Len(stream) - 1 : stream[i].s <= stream[i + 1].s

\* two contiguous segments were sampled with a delta_s that does not divide
\* their length; the stream goes on from the clamped end of the first
C4_Witness ==
  /\ pc = "sampled"
  /\ Authored
  /\ Len(geometrys) >= 2
  /\ heap[geometrys[1]].length % delta_s # 0
  /\ \E i \in 1 .. Len(stream) - 1 :
       /\ stream[i].s = heap[geometrys[2]].s
       /\ stream[i + 1].s = heap[geometrys[2]].s
       /\ stream[i].frame # stream[i + 1].frame

(***************************************************************************)
(* C5: a segment with length <= 0 is either rejected at construction or    *)
(* its sampling returns exactly one point, at the segment start            *)
(* (local arc-length 0, s = s_offset), without dividing by zero.           *)
(***************************************************************************)
C5_DegenerateSampledAtStart ==
  (HasCall /\ Called.length <= 0) =>
    /\ last.exc = ""
    /\ ~last.isNone
    /\ Len(last.points) = 1
    /\ last.points[1].s = Called.s
    /\ last.points[1].local = LocalExact(0, 0)

(***************************************************************************)
(* C6: a Spiral with curv_start = curv_end = k # 0 is sampled like the     *)
(* Arc of curvature k with the same s, x, y, hdg, length and delta_s:      *)
(* same number of points, same s and same heading point by point.          *)
(***************************************************************************)
ArcLike(spiral) ==
  [cls |-> "Arc", s |-> spiral.s, x |-> spiral.x, y |-> spiral.y,
   hdg |-> spiral.hdg, length |-> spiral.length,
   curvature |-> spiral.curv_start]

\* C6: the constant-curvature Spiral has the points (count, s, heading) of
\* the Arc of that curvature
C6_ConstantSpiralIsArc ==
  (HasCall /\ Called.cls = "Spiral" /\ Called.length > 0
           /\ Called.curv_start = Called.curv_end
           /\ Called.curv_start # 0) =>
    LET arc == Arc_sampling(ArcLike(Called), last.delta_s)
    IN  /\ last.exc = ""
        /\ Len(last.points) = Len(arc.points)
        /\ \A i \in 1 .. Len(last.points) :
             /\ last.points[i].s = arc.points[i].s
             /\ last.points[i].rotate = arc.points[i].rotate

(***************************************************************************)
(* C7: a Poly3 with a = b = c = d = 0 and length > 0 is sampled like the   *)
(* Line with the same s, x, y, hdg, length and delta_s: the call           *)
(* completes with the same number of points and the same s stamps, zero    *)
(* lateral offset and heading hdg at every point.                          *)
(***************************************************************************)
LineLike(poly) ==
  [cls |-> "Geometry", s |-> poly.s, x |-> poly.x, y |-> poly.y,
   hdg |-> poly.hdg, length |-> poly.length]

\* C7: the zero Poly3 has the points (count, s, offset, heading) of the Line
C7_ZeroPoly3IsLine ==
  (HasCall /\ Called.cls = "Poly3" /\ Called.length > 0
           /\ <<Called.a, Called.b, Called.c, Called.d>> = <<0, 0, 0, 0>>) =>
    LET line == Geometry_sampling(LineLike(Called), last.delta_s)
    IN  /\ last.exc = ""
        /\ Len(last.points) = Len(line.points)
        /\ \A i \in 1 .. Len(last.points) :
             /\ last.points[i].s = line.points[i].s
             /\ last.points[i].local.t = 0
             /\ last.points[i].rotate = Rat(Called.hdg, 1)

(***************************************************************************)
(* C8: once the plan view is built, no sampling call changes a field of a  *)
(* segment or the segment list.                                            *)
(***************************************************************************)
ReadOnlyStep ==
  pc \in {"built", "sampling", "sampled", "raised"} =>
    (heap' = heap /\ geometrys' = geometrys)

\* C8: every step after the build leaves the segments and their list as
\* they were
C8_ReadOnlyAfterBuild == [][ReadOnlyStep]_vars

\* a pass over a plan view of several segments has produced points
C8_Witness ==
  /\ pc = "sampled"
  /\ Len(geometrys) >= 2
  /\ Len(stream) >= 2

(***************************************************************************)
(* C9 as stated: a block with an unsupported tag is dropped; the build     *)
(* finishes, no segment is appended for the block, and the segments of     *)
(* the other blocks are left as built (each present once, with the fields  *)
(* of its own block).                                                      *)
(***************************************************************************)
Recognized(i) == TagOf(i) \in RecognizedTags

\* the number of recognized blocks among 1 .. i: the identity of the
\* segment created for block i when block i is recognized
ObjectOf(i) == Cardinality({j \in 1 .. i : Recognized(j)})

\* the n-th recognized block
NthRecognized(n) == CHOOSE j \in Blocks : Recognized(j) /\ ObjectOf(j) = n

Holder(i) ==
  IF \E j \in 1 .. i : Recognized(j)
  THEN CHOOSE j \in 1 .. i :
         Recognized(j) /\ \A m \in j + 1 .. i : ~Recognized(m)
  ELSE 0

\* the blocks the loop has worked on
Attempted == 1 .. (IF pc = "failed" THEN idx ELSE idx - 1)

\* the last block worked on whose holder is block j
LastUser(j) ==
  CHOOSE i \in Attempted :
    Holder(i) = j /\ \A m \in Attempted : Holder(m) = j => m <= i

C10_ParamPoly3ReturnsNothing ==
  /\ (HasCall /\ Called.cls = "ParamPoly3" /\ Called.length > 0) =>
       /\ last.exc = ""
       /\ last.isNone
       /\ last.points = <<>>
  /\ (\A i \in 1 .. Len(geometrys) :
        /\ heap[geometrys[i]].cls = "ParamPoly3"
        /\ heap[geometrys[i]].length > 0) => stream = <<>>

\* a pass over a ParamPoly3 segment with non-zero coefficients has finished
C10_Witness ==
  /\ pc = "sampled"
  /\ HasCall
  /\ Called.cls = "ParamPoly3"
  /\ Called.length > 0
  /\ Called.bU # 0
  /\ stream = <<>>
====
